---- MODULE Spec2Model ----
(***************************************************************************)
(* Two notebooks: collaborative_filtering_movielens.ipynb (a recommender   *)
(* that scores (user, movie) pairs from embedding tables) and              *)
(* bidirectional_lstm_imdb.ipynb (a sequence classifier).  Each notebook   *)
(* is a sequence of cells; a cell is one action.  The notebooks run in     *)
(* separate kernels and share nothing: Spec is a run of the recommender    *)
(* notebook, SpecTop the same run on a larger catalogue, SpecLoad its load *)
(* cell run repeatedly and step by step, SpecCall the recommender's        *)
(* forward function on its own, SpecLoss its training loss on one example, *)
(* SpecImdb a run of the classifier notebook and SpecBoth a run of either  *)
(* notebook.  The variables carry the notebooks' own names; pc is the last *)
(* cell run.                                                               *)
(*                                                                         *)
(* Numbers.  Table values (embeddings, biases) are held in half units      *)
(* (3 is 1.5, 4 is 2.0), so a logit, a sum of products plus biases, is     *)
(* held in quarter units (12 is 3.0).  All such values are exact in        *)
(* float32.  A score, the float32 result of tf.nn.sigmoid, is held as its  *)
(* IEEE-754 bit pattern: for the non-negative floats the order of the bit  *)
(* patterns is the order of the values (0 is 0.0, 1056964608 is 0.5,       *)
(* 1065353216 is 1.0).  Ratings are held in half stars (10 is 5.0).        *)
(***************************************************************************)
EXTENDS Integers, Sequences, FiniteSets, TLC

VARIABLES pc, ratings_csv, movies_csv, df,
          user_ids, user2user_encoded, userencoded2user,
          movie_ids, movie2movie_encoded, movie_encoded2movie,
          num_users, num_movies, min_rating, max_rating,
          x, y, x_train, x_val, y_train, y_val,
          model, history, rec, inputs, outputs, imdb, disk, loads

prepVars == <<ratings_csv, movies_csv, df, user_ids, user2user_encoded,
              userencoded2user, movie_ids, movie2movie_encoded,
              movie_encoded2movie, num_users, num_movies, min_rating,
              max_rating>>
splitVars == <<x, y, x_train, x_val, y_train, y_val>>
callVars == <<inputs, outputs>>
diskVars == <<disk, loads>>
vars == <<pc, prepVars, splitVars, model, history, rec, callVars, imdb,
         diskVars>>

(***************************************************************************)
(* Bounds of the model and the small sets the inputs are drawn from.       *)
(***************************************************************************)
MaxRatings == 3
MaxBatch == 2
MaxRuns == 2
RawUsers == {3, 5}
RawMovies == {2, 4, 6}
MoviesCsvChoices == {<<6, 2, 7, 4>>}

(***************************************************************************)
(* Sequence helpers.                                                       *)
(***************************************************************************)
Range(s) == {s[i] : i \in DOMAIN s}
EmptyDict == [k \in {} |-> 0]
Put(d, k, v) == [j \in DOMAIN d \cup {k} |-> IF j = k THEN v ELSE d[j]]
NaNIndex == -1
Get(d, k) == IF k \in DOMAIN d THEN d[k] ELSE NaNIndex

(***************************************************************************)
(* tf.nn.sigmoid in float32.  SigmoidTable lists the float32 nearest to    *)
(* 1/(1+exp(-q/4)) for the logits q (quarter units) from SigmoidLow to     *)
(* SigmoidHigh - 1; below SigmoidLow the result underflows to 0.0 and from *)
(* SigmoidHigh on it rounds to 1.0.                                        *)
(***************************************************************************)
Zero == 0
Half == 1056964608
One == 1065353216
SigmoidLow == -415
SigmoidHigh == 70
SigmoidTable ==
  <<
     1, 1, 1, 1, 2, 2,
     3, 4, 5, 6, 8, 10,
     13, 16, 21, 27, 34, 44,
     56, 72, 93, 119, 153, 196,
     252, 323, 415, 533, 685, 879,
     1129, 1449, 1861, 2390, 3068, 3940,
     5059, 6496, 8341, 10710, 13752, 17658,
     22673, 29113, 37381, 47999, 61632, 79137,
     101613, 130474, 167532, 215115, 276214, 354665,
     455399, 584744, 750827, 964080, 1237904, 1589500,
     2040958, 2620642, 3364971, 4320708, 5547899, 7123644,
     9146940, 11744903, 15080754, 18070644, 20820588, 24351586,
     27025651, 29936467, 33614230, 36013792, 39094891, 42497070,
     45037006, 48298349, 51408822, 54097345, 57549477, 60351179,
     63196980, 66851061, 69325929, 72338210, 75851764, 78334969,
     81523469, 84751831, 87380305, 90755331, 93681819, 96464058,
     100036524, 102643478, 105588478, 109210919, 111638661, 114755943,
     118099563, 120669328, 123968971, 127017459, 129737555, 133230228,
     135966318, 138845540, 142542534, 144947952, 147995609, 151451910,
     153964278, 157190223, 160357985, 163017326, 166431988, 169294331,
     172109244, 175723664, 178262719, 181242305, 184808772, 187265025,
     190418916, 193703288, 196303232, 199641626, 202627400, 205379441,
     208913131, 211582839, 214495874, 218170047, 220571438, 223654885,
     227053263, 229595136, 232858965, 235965414, 238655987, 242110750,
     244908193, 247756164, 251413030, 253883390, 256897967, 260407805,
     262892903, 266083833, 269308262, 271938739, 275316338, 278238663,
     281023023, 284598212, 287200759, 290148004, 293766811, 296196403,
     299316062, 302655836, 305227560, 308529719, 311574135, 314296305,
     317791640, 320523422, 323404839, 327104651, 329505508, 332555488,
     336008030, 338522313, 341750716, 344914498, 347575867, 350993132,
     353851262, 356668321, 360285496, 362820092, 365801949, 369364741,
     371822866, 374979162, 378259643, 380861568, 384202507, 387184163,
     389938301, 393474685, 396140034, 399055289, 402725868, 405129090,
     408214888, 411609461, 414153272, 417419589, 420522012, 423214635,
     426672032, 429465213, 432315355, 435975009, 438440857, 441457733,
     444963850, 447450844, 450644206, 453864698, 456497181, 459877355,
     462795512, 465581995, 469159909, 471758045, 474707537, 478322708,
     480754152, 483876189, 487212114, 489785799, 493090475, 496130818,
     498855063, 502353062, 505080532, 507964145, 511666778, 514063070,
     517115375, 520564154, 523080354, 526311218, 529471017, 532134415,
     535554285, 538408199, 541227405, 544847338, 547377472, 550361602,
     553920714, 556380713, 559539415, 562816002, 565419911, 568763397,
     571740931, 574497169, 578036248, 580697234, 583614712, 587281694,
     589686748, 592774898, 596165665, 598711415, 601980222, 605078615,
     607773291, 611233323, 614022238, 616874553, 620536997, 622998331,
     626017506, 629519901, 632008791, 635204587, 638421140, 641055629,
     644438380, 647352367, 650140974, 653721615, 656315337, 659267078,
     662878609, 665311908, 668436325, 671768398, 674344044, 677651240,
     680687505, 683413827, 686914494, 689637647, 692523459, 696228914,
     698620639, 701675270, 705120283, 707638401, 710871729, 714027542,
     716692970, 720115447, 722965141, 725786497, 729409189, 731934857,
     734921262, 738476693, 740938567, 744099677, 747372367, 749978261,
     753324296, 756297705, 759056044, 762597821, 765254441, 768174143,
     771837525, 774244412, 777334917, 780721874, 783269564, 786540863,
     789635223, 792331953, 795794623, 798579270, 801433759, 805098995,
     807555810, 810577287, 814075958, 816566744, 819764977, 822977587,
     825614084, 828999414, 831909227, 834699960, 838283331, 840872636,
     843826626, 847434516, 849869670, 852996468, 856324687, 858902296,
     862212013, 865244198, 867972598, 871475932, 874194767, 877082778,
     880791056, 883178210, 886235168, 889676413, 892196448, 895432236,
     898584062, 901251515, 904676591, 907522067, 910345559, 913970989,
     916492198, 919480847, 923032608, 925496315, 928659761, 931928584,
     934536365, 937884786, 940854140, 943614359, 947158469, 949810883,
     952732311, 956392315, 958800358, 961892099, 965275743, 967823855,
     971095141, 974186585, 976881965, 980341660, 983124545, 985973585,
     989629053, 992086972, 995093705, 998596298, 1001065879, 1004228532,
     1007454357, 1010041492, 1013345057, 1016289233, 1018968842, 1022369844,
     1025041428, 1027752354, 1031150955, 1033591689, 1036207765, 1039409321,
     1041734063, 1044041154, 1046743937, 1049211569, 1050952369, 1052855555,
     1054878311, 1056964608, 1058007757, 1059019135, 1059970728, 1060841128,
     1061616928, 1062292624, 1062869396, 1063353323, 1063753517, 1064080527,
     1064345129, 1064557542, 1064726975, 1064861438, 1064967720, 1065051457,
     1065117267, 1065168886, 1065209310, 1065240929, 1065265637, 1065284930,
     1065299987, 1065311732, 1065320891, 1065328030, 1065333595, 1065337931,
     1065341310, 1065343942, 1065345992, 1065347590, 1065348834, 1065349803,
     1065350558, 1065351146, 1065351604, 1065351960, 1065352238, 1065352454,
     1065352623, 1065352754, 1065352856, 1065352936, 1065352998, 1065353046,
     1065353084, 1065353113, 1065353136, 1065353153, 1065353167, 1065353178,
     1065353186, 1065353193, 1065353198, 1065353202, 1065353205, 1065353208,
     1065353209, 1065353211, 1065353212, 1065353213, 1065353214, 1065353214,
     1065353215, 1065353215, 1065353215, 1065353215, 1065353215  >>
\* The activation left out: the logit is returned as it is.
SigmoidMissing(q) == q

Sigmoid(q) ==
  IF q < SigmoidLow THEN Zero
  ELSE IF q >= SigmoidHigh THEN One
  ELSE SigmoidTable[q - SigmoidLow + 1]

(***************************************************************************)
(* RecommenderNet.  An embedding vector has EMBEDDING_SIZE components (50  *)
(* in the notebook, fewer here: no cell depends on the number);            *)
(* Vec(a, b) is the vector with a in the first component, b in the last    *)
(* and 0 elsewhere.                                                        *)
(***************************************************************************)
EMBEDDING_SIZE == 2
Vec(a, b) ==
  [k \in 1..EMBEDDING_SIZE |->
     IF k = 1 THEN a ELSE IF k = EMBEDDING_SIZE THEN b ELSE 0]

RECURSIVE SumSeq(_, _)
SumSeq(s, n) == IF n = 0 THEN 0 ELSE SumSeq(s, n - 1) + s[n]

Dot(u, v) == SumSeq([k \in 1..EMBEDDING_SIZE |-> u[k] * v[k]], EMBEDDING_SIZE)

\* tf.tensordot(a, b, 2) of two (batch, EMBEDDING_SIZE) tensors contracts both
\* axes: one scalar, the sum over the rows of the batch of the row products.
tensordot2(a, b) == SumSeq([i \in 1..Len(a) |-> Dot(a[i], b[i])], Len(a))

\* The movie bias lookup left out: the movie index is added as the bias.
callBiasIsIndex(m, in) ==
  LET dot_user_movie ==
        tensordot2([i \in 1..Len(in) |-> m.user_embedding[in[i][1]]],
                   [i \in 1..Len(in) |-> m.movie_embedding[in[i][2]]])
  IN [i \in 1..Len(in) |->
        Sigmoid(dot_user_movie + 2 * m.user_bias[in[i][1]] + 2 * in[i][2])]

\* RecommenderNet.call: inputs is a batch of rows <<user index, movie index>>.
call(m, in) ==
  LET user_vector == [i \in 1..Len(in) |-> m.user_embedding[in[i][1]]]
      user_bias == [i \in 1..Len(in) |-> m.user_bias[in[i][1]]]
      movie_vector == [i \in 1..Len(in) |-> m.movie_embedding[in[i][2]]]
      movie_bias == [i \in 1..Len(in) |-> m.movie_bias[in[i][2]]]
      dot_user_movie == tensordot2(user_vector, movie_vector)
      logit == [i \in 1..Len(in) |->
                  dot_user_movie + 2 * user_bias[i] + 2 * movie_bias[i]]
  IN [i \in 1..Len(in) |-> Sigmoid(logit[i])]

\* model.predict: the rows are fed to call in batches of PREDICT_BATCH_SIZE
\* and the outputs concatenated.
PREDICT_BATCH_SIZE == 32
predict(m, arr) ==
  [i \in 1..Len(arr) |->
     LET first == ((i - 1) \div PREDICT_BATCH_SIZE) * PREDICT_BATCH_SIZE + 1
         last == IF first + PREDICT_BATCH_SIZE - 1 < Len(arr)
                 THEN first + PREDICT_BATCH_SIZE - 1 ELSE Len(arr)
     IN call(m, SubSeq(arr, first, last))[i - first + 1]]

NoModel ==
  [built |-> FALSE, user_embedding |-> << >>, user_bias |-> << >>,
   movie_embedding |-> << >>, movie_bias |-> << >>]

(***************************************************************************)
(* The tables the initializer or the optimizer may leave in the model of   *)
(* the notebook run: per side one of a few patterns over the indices.      *)
(***************************************************************************)
UserPatterns == {"zero", "asc"}
MoviePatterns == {"zero", "asc", "desc"}
PatVec(p, i, n) ==
  IF p = "zero" THEN Vec(0, 0)
  ELSE IF p = "asc" THEN Vec(i + 1, i) ELSE Vec(n - i, i - n)
PatBias(p, i, n) ==
  IF p = "zero" THEN 0 ELSE IF p = "asc" THEN i ELSE n - 1 - i
Tables(pu, pm, nu, nm) ==
  [built |-> TRUE,
   user_embedding |-> [i \in 0..(nu - 1) |-> PatVec(pu, i, nu)],
   user_bias |-> [i \in 0..(nu - 1) |-> PatBias(pu, i, nu)],
   movie_embedding |-> [i \in 0..(nm - 1) |-> PatVec(pm, i, nm)],
   movie_bias |-> [i \in 0..(nm - 1) |-> PatBias(pm, i, nm)]]
TableChoices(nu, nm) ==
  {Tables(pu, pm, nu, nm) : pu \in UserPatterns, pm \in MoviePatterns}

(***************************************************************************)
(* Preprocessing helpers.                                                  *)
(***************************************************************************)
\* tolist() without unique(): repeated values stay.
uniqueNoDedup(s, n) == s

\* Series.unique().tolist(): the distinct values in order of first appearance.
RECURSIVE unique(_, _)
unique(s, n) ==
  IF n = 0 THEN << >>
  ELSE LET u == unique(s, n - 1)
       IN IF s[n] \in Range(u) THEN u ELSE Append(u, s[n])

\* The enumeration started at 1: {x: i for i, x in enumerate(ids, 1)}.
RECURSIVE value2index_from_one(_, _)
value2index_from_one(ids, n) ==
  IF n = 0 THEN EmptyDict ELSE Put(value2index_from_one(ids, n - 1), ids[n], n)

\* {x: i for i, x in enumerate(ids)}
RECURSIVE value2index(_, _)
value2index(ids, n) ==
  IF n = 0 THEN EmptyDict ELSE Put(value2index(ids, n - 1), ids[n], n - 1)

\* {i: x for i, x in enumerate(ids)}
RECURSIVE index2value(_, _)
index2value(ids, n) ==
  IF n = 0 THEN EmptyDict ELSE Put(index2value(ids, n - 1), n - 1, ids[n])

RECURSIVE MinOf(_, _)
MinOf(s, n) ==
  IF n = 1 THEN s[1]
  ELSE LET r == MinOf(s, n - 1) IN IF s[n] < r THEN s[n] ELSE r
RECURSIVE MaxOf(_, _)
MaxOf(s, n) ==
  IF n = 1 THEN s[1]
  ELSE LET r == MaxOf(s, n - 1) IN IF s[n] > r THEN s[n] ELSE r

\* df.sample(frac=1, random_state=42): the permutation numpy's
\* RandomState(42) draws for a table of n rows (row i of the result is row
\* SamplePermutation(n)[i] of the table, counted from 0).
SamplePermutation(n) ==
  IF n = 0 THEN << >>
  ELSE IF n = 1 THEN <<0>>
  ELSE IF n = 2 THEN <<1, 0>>
  ELSE IF n = 3 THEN <<0, 1, 2>>
  ELSE IF n = 4 THEN <<1, 3, 0, 2>>
  ELSE IF n = 5 THEN <<1, 4, 2, 0, 3>>
  ELSE IF n = 6 THEN <<0, 1, 5, 2, 4, 3>>
  ELSE IF n = 7 THEN <<0, 1, 5, 2, 4, 3, 6>>
  ELSE IF n = 8 THEN <<1, 5, 0, 7, 2, 4, 3, 6>>
  ELSE IF n = 9 THEN <<7, 1, 5, 0, 8, 2, 4, 3, 6>>
  ELSE IF n = 10 THEN <<8, 1, 5, 0, 7, 2, 9, 4, 3, 6>>
  ELSE IF n = 11 THEN <<5, 0, 9, 10, 2, 1, 8, 4, 7, 3, 6>>
  ELSE IF n = 12 THEN <<10, 9, 0, 8, 5, 2, 1, 11, 4, 7, 3, 6>>
  ELSE IF n = 13 THEN <<11, 9, 0, 8, 5, 2, 1, 12, 4, 7, 10, 3, 6>>
  ELSE IF n = 14 THEN <<9, 11, 0, 12, 5, 8, 2, 1, 13, 4, 7, 10, 3, 6>>
  ELSE <<9, 11, 0, 13, 5, 8, 2, 1, 14, 4, 7, 10, 12, 3, 6>>
sample(t) == [i \in 1..Len(t) |-> t[SamplePermutation(Len(t))[i] + 1]]

\* (x - min_rating) / (max_rating - min_rating) as the float quotient of its
\* two operands, held as <<numerator, denominator>>; 0/0 is NaN.
normalize(r, lo, hi) == <<r - lo, hi - lo>>

\* round(0.9 * n) in place of int(0.9 * n).
TrainCountRounded(n) == (9 * n + 5) \div 10

\* int(0.9 * n)
TrainCount(n) == (9 * n) \div 10

(***************************************************************************)
(* Recommendation helpers.                                                 *)
(***************************************************************************)
FilterSeq(s, keep) == LET Kept(e) == e \in keep IN SelectSeq(s, Kept)

\* A set whose iteration order changes from one execution to the next.
listByRun(S) ==
  [k \in 1..Cardinality(S) |->
     CHOOSE a \in S :
       Cardinality({b \in S : IF rec.runs % 2 = 0 THEN b < a ELSE b > a}) = k - 1]

\* list(set): CPython iterates a set of small non-negative integers in
\* increasing order.
list(S) ==
  [k \in 1..Cardinality(S) |->
     CHOOSE a \in S : Cardinality({b \in S : b < a}) = k - 1]

\* ndarray.argsort(): indices (from 0) in increasing order of value; equal
\* values keep their index order (insertion sort, numpy's sort of a short
\* array).
argsort(r) ==
  LET Before(i, j) == r[i] < r[j] \/ (r[i] = r[j] /\ i < j)
  IN [k \in 1..Len(r) |->
        (CHOOSE j \in 1..Len(r) :
           Cardinality({i \in 1..Len(r) : Before(i, j)}) = k - 1) - 1]

TOP_N == 10
TOP_RATED == 5
LastN(s, n) == IF Len(s) <= n THEN s ELSE SubSeq(s, Len(s) - n + 1, Len(s))
FirstN(s, n) == IF Len(s) <= n THEN s ELSE SubSeq(s, 1, n)
Reverse(s) == [i \in 1..Len(s) |-> s[Len(s) + 1 - i]]

\* The slice taken from the wrong end of the sorted indices.
top_indices_lowest(r) == Reverse(FirstN(argsort(r), TOP_N))

\* ratings.argsort()[-10:][::-1]
top_indices(r) == Reverse(LastN(argsort(r), TOP_N))

\* sort_values(by="rating", ascending=False).head(5).movieId.values
top_rated(rows) ==
  LET neg == [i \in 1..Len(rows) |-> 0 - rows[i].rating]
      order == FirstN(argsort(neg), TOP_RATED)
  IN {rows[order[i] + 1].movieId : i \in 1..Len(order)}

NoRec ==
  [user_id |-> 0, movies_not_watched |-> << >>, user_movie_array |-> << >>,
   ratings |-> << >>, top_ratings_indices |-> << >>,
   recommended_movie_ids |-> << >>, printed_rated |-> << >>,
   printed_recommended |-> << >>, runs |-> 0]

(***************************************************************************)
(* The files the notebook reads: ratings.csv (no user rates a movie twice; *)
(* the ratings column follows one of a few profiles) and movies.csv (a     *)
(* list of movie ids).                                                     *)
(***************************************************************************)
RatedPairs == RawUsers \X RawMovies
PairSeqs ==
  {f \in UNION {[1..n -> RatedPairs] : n \in 1..MaxRatings} :
     \A i, j \in 1..Len(f) : f[i] = f[j] => i = j}
RatingProfiles == {"equal", "varied"}
ProfileRating(p, i) ==
  IF p = "equal" THEN 6 ELSE <<2, 10, 6>>[((i - 1) % 3) + 1]
RatingsFiles ==
  {[i \in 1..Len(f) |->
      [userId |-> f[i][1], movieId |-> f[i][2], rating |-> ProfileRating(p, i)]] :
     f \in PairSeqs, p \in RatingProfiles}

(***************************************************************************)
(* The dataset directory.  disk.dir says whether movielens_dir exists and  *)
(* disk.files which members of the archive are in it; Archive lists the    *)
(* members of ml-latest-small.zip in the order ZipFile.extractall writes   *)
(* them, the directory being created with the first.  loads has one entry  *)
(* for each run of the load cell: whether movielens_dir existed when the   *)
(* cell tested it, whether the run went on to extract, and how many        *)
(* members it wrote.                                                       *)
(***************************************************************************)
Archive == <<"links.csv", "ratings.csv", "movies.csv">>
NoDisk == [dir |-> FALSE, files |-> {}]
FullDisk == [dir |-> TRUE, files |-> Range(Archive)]

\* The extraction guard dropped: every run extracts.
extract_always(d) == TRUE

\* if not movielens_dir.exists():
should_extract(d) == ~d.dir

\* zip.extractall(path=keras_datasets_path) up to and including member k.
extract_member(d, k) == [dir |-> TRUE, files |-> d.files \cup {Archive[k]}]
extractall(d) == [dir |-> TRUE, files |-> d.files \cup Range(Archive)]

\* pd.read_csv(ratings_file): the rows of ratings.csv as the frame df.
read_csv(file) ==
  [i \in 1..Len(file) |->
     [userId |-> file[i].userId, movieId |-> file[i].movieId,
      rating |-> file[i].rating, user |-> NaNIndex, movie |-> NaNIndex]]

Init ==
  /\ pc = "start"
  /\ ratings_csv \in RatingsFiles
  /\ movies_csv \in MoviesCsvChoices
  /\ df = << >>
  /\ user_ids = << >> /\ user2user_encoded = EmptyDict
  /\ userencoded2user = EmptyDict
  /\ movie_ids = << >> /\ movie2movie_encoded = EmptyDict
  /\ movie_encoded2movie = EmptyDict
  /\ num_users = 0 /\ num_movies = 0 /\ min_rating = 0 /\ max_rating = 0
  /\ x = << >> /\ y = << >>
  /\ x_train = << >> /\ x_val = << >> /\ y_train = << >> /\ y_val = << >>
  /\ model = NoModel
  /\ history = << >>
  /\ rec = NoRec
  /\ inputs = << >> /\ outputs = << >>
  /\ imdb = << >>
  /\ disk = NoDisk /\ loads = << >>

\* Cell "load the data", run to its end: the archive is extracted unless
\* movielens_dir exists, then df = pd.read_csv(ratings_file).
LoadData ==
  /\ pc = "start"
  /\ disk' = IF should_extract(disk) THEN extractall(disk) ELSE disk
  /\ loads' = Append(loads, [existed |-> disk.dir,
                             extracts |-> should_extract(disk),
                             written |-> IF should_extract(disk)
                                         THEN Len(Archive) ELSE 0])
  /\ "ratings.csv" \in disk'.files
  /\ df' = read_csv(ratings_csv)
  /\ pc' = "loaded"
  /\ UNCHANGED <<ratings_csv, movies_csv, user_ids, user2user_encoded,
                 userencoded2user, movie_ids, movie2movie_encoded,
                 movie_encoded2movie, num_users, num_movies, min_rating,
                 max_rating, splitVars, model, history, rec, callVars, imdb>>

\* Cell "encode users and movies as integer indices".
Encode ==
  /\ pc = "loaded"
  /\ LET uids == unique([i \in 1..Len(df) |-> df[i].userId], Len(df))
         mids == unique([i \in 1..Len(df) |-> df[i].movieId], Len(df))
         u2e == value2index(uids, Len(uids))
         m2e == value2index(mids, Len(mids))
         e2m == index2value(mids, Len(mids))
         rs == [i \in 1..Len(df) |-> df[i].rating]
     IN /\ user_ids' = uids
        /\ user2user_encoded' = u2e
        /\ userencoded2user' = index2value(uids, Len(uids))
        /\ movie_ids' = mids
        /\ movie2movie_encoded' = m2e
        /\ movie_encoded2movie' = e2m
        /\ df' = [i \in 1..Len(df) |->
                    [df[i] EXCEPT !.user = Get(u2e, df[i].userId),
                                  !.movie = Get(m2e, df[i].movieId)]]
        /\ num_users' = Cardinality(DOMAIN u2e)
        /\ num_movies' = Cardinality(DOMAIN e2m)
        /\ min_rating' = MinOf(rs, Len(rs))
        /\ max_rating' = MaxOf(rs, Len(rs))
  /\ pc' = "encoded"
  /\ UNCHANGED <<ratings_csv, movies_csv, splitVars, model, history, rec,
                 callVars, imdb, diskVars>>

\* Cell "prepare training and validation data".
Split ==
  /\ pc = "encoded"
  /\ LET shuffled == sample(df)
         xs == [i \in 1..Len(shuffled) |-> <<shuffled[i].user, shuffled[i].movie>>]
         ys == [i \in 1..Len(shuffled) |->
                  normalize(shuffled[i].rating, min_rating, max_rating)]
         train_indices == TrainCount(Len(shuffled))
     IN /\ df' = shuffled
        /\ x' = xs
        /\ y' = ys
        /\ x_train' = SubSeq(xs, 1, train_indices)
        /\ x_val' = SubSeq(xs, train_indices + 1, Len(xs))
        /\ y_train' = SubSeq(ys, 1, train_indices)
        /\ y_val' = SubSeq(ys, train_indices + 1, Len(ys))
  /\ pc' = "split"
  /\ UNCHANGED <<ratings_csv, movies_csv, user_ids, user2user_encoded,
                 userencoded2user, movie_ids, movie2movie_encoded,
                 movie_encoded2movie, num_users, num_movies, min_rating,
                 max_rating, model, history, rec, callVars, imdb, diskVars>>

\* The cell run out of turn, before the data cells as well as after them.
CreateModelAnyTime ==
  /\ pc \in {"start", "split"}
  /\ model' \in TableChoices(num_users, num_movies)
  /\ pc' = "compiled"
  /\ UNCHANGED <<prepVars, splitVars, history, rec, callVars, imdb, diskVars>>

\* Cell "create the model": RecommenderNet(num_users, num_movies,
\* EMBEDDING_SIZE); the four tables get their initial values.
CreateModel ==
  /\ pc = "split"
  /\ model' \in TableChoices(num_users, num_movies)
  /\ pc' = "compiled"
  /\ UNCHANGED <<prepVars, splitVars, history, rec, callVars, imdb, diskVars>>

\* Cell "train the model": model.fit on a non-empty training set; the
\* optimizer rewrites the tables.
Fit ==
  /\ pc = "compiled"
  /\ Len(x_train) > 0
  /\ model' \in TableChoices(num_users, num_movies)
  /\ history' = <<"loss", "val_loss">>
  /\ pc' = "fitted"
  /\ UNCHANGED <<prepVars, splitVars, rec, callVars, imdb, diskVars>>

\* The selection without the ~isin(...) filter on the movies the user rated.
not_watched_unfiltered(movie_df, watched_rows) ==
  LET candidates == list(Range(movie_df) \cap DOMAIN movie2movie_encoded)
  IN [i \in 1..Len(candidates) |-> <<Get(movie2movie_encoded, candidates[i])>>]

\* movies_not_watched: the movies of movies.csv the user has not rated, as a
\* set cut down to the movies that have an index, as a list of [index] rows.
not_watched(movie_df, watched_rows) ==
  LET watched == {watched_rows[i].movieId : i \in 1..Len(watched_rows)}
      unseen == FilterSeq(movie_df, Range(movie_df) \ watched)
      candidates == list(Range(unseen) \cap DOMAIN movie2movie_encoded)
  IN [i \in 1..Len(candidates) |-> <<Get(movie2movie_encoded, candidates[i])>>]

\* np.hstack(([[user_encoder]] * len(movies_not_watched), movies_not_watched))
hstack(user_encoder, rows) ==
  [i \in 1..Len(rows) |-> <<user_encoder, rows[i][1]>>]

\* The body of the cell "show top 10 movie recommendations to a user".  Each
\* \E over a one-element set is one assignment of the cell; rec.runs counts
\* the executions of the cell.
ShowRecommendations ==
  \E user_id \in {df[i].userId : i \in 1..Len(df)} :
  \E movies_watched_by_user \in
       {FilterSeq(df, {r \in Range(df) : r.userId = user_id})} :
  \E movies_not_watched \in {not_watched(movies_csv, movies_watched_by_user)} :
  \E user_movie_array \in
       {hstack(Get(user2user_encoded, user_id), movies_not_watched)} :
    /\ Len(user_movie_array) > 0
    /\ \E ratings \in {predict(model, user_movie_array)} :
       \E top_ratings_indices \in {top_indices(ratings)} :
       \E recommended_movie_ids \in
            {[i \in 1..Len(top_ratings_indices) |->
                Get(movie_encoded2movie,
                    movies_not_watched[top_ratings_indices[i] + 1][1])]} :
         rec' = [user_id |-> user_id,
                 movies_not_watched |-> movies_not_watched,
                 user_movie_array |-> user_movie_array,
                 ratings |-> ratings,
                 top_ratings_indices |-> top_ratings_indices,
                 recommended_movie_ids |-> recommended_movie_ids,
                 printed_rated |->
                   FilterSeq(movies_csv, top_rated(movies_watched_by_user)),
                 printed_recommended |->
                   FilterSeq(movies_csv, Range(recommended_movie_ids)),
                 runs |-> rec.runs + 1]

\* The cell with the model left in training: the tables are rewritten.
RecommendTraining ==
  /\ pc \in {"fitted", "recommended"}
  /\ rec.runs < MaxRuns
  /\ ShowRecommendations
  /\ model' \in TableChoices(num_users, num_movies)
  /\ pc' = "recommended"
  /\ UNCHANGED <<prepVars, splitVars, history, callVars, imdb, diskVars>>

\* The cell can be run again; it reads the model and writes rec only.
Recommend ==
  /\ pc \in {"fitted", "recommended"}
  /\ rec.runs < MaxRuns
  /\ ShowRecommendations
  /\ pc' = "recommended"
  /\ UNCHANGED <<prepVars, splitVars, model, history, callVars, imdb,
                 diskVars>>

Next == LoadData \/ Encode \/ Split \/ CreateModel \/ Fit \/ Recommend

Spec == Init /\ [][Next]_vars

(***************************************************************************)
(* The same notebook run on a catalogue large enough for the top-10 cut:   *)
(* user 3 rates the movies 1..CatalogueSize (odd ids first), user 5 rates  *)
(* one movie, in the first or the last row of ratings.csv; movies.csv      *)
(* lists the movies from CatalogueSize + 2 down to 1, of which the movie   *)
(* CatalogueSize + 2 is rated by nobody, and may lack the rated movie 2.   *)
(***************************************************************************)
CatalogueSize == 12
CatalogueOrder ==
  LET odd == (CatalogueSize + 1) \div 2
  IN [i \in 1..CatalogueSize |-> IF i <= odd THEN 2 * i - 1 ELSE 2 * (i - odd)]
CataloguePairs ==
  LET heavy == [i \in 1..CatalogueSize |-> <<3, CatalogueOrder[i]>>]
  IN UNION {{<<<<5, c>>>> \o heavy, heavy \o <<<<5, c>>>>} :
              c \in {1, CatalogueSize + 1}}
CatalogueRatingsFiles ==
  {[i \in 1..Len(f) |->
      [userId |-> f[i][1], movieId |-> f[i][2], rating |-> ProfileRating(p, i)]] :
     f \in CataloguePairs, p \in RatingProfiles}
CatalogueMoviesCsv == [i \in 1..(CatalogueSize + 2) |-> CatalogueSize + 3 - i]
\* movies.csv as above, or with the movie 2 missing from it.
CatalogueMoviesFiles ==
  {CatalogueMoviesCsv, FilterSeq(CatalogueMoviesCsv, Range(CatalogueMoviesCsv) \ {2})}

InitTop ==
  /\ pc = "start"
  /\ ratings_csv \in CatalogueRatingsFiles
  /\ movies_csv \in CatalogueMoviesFiles
  /\ df = << >>
  /\ user_ids = << >> /\ user2user_encoded = EmptyDict
  /\ userencoded2user = EmptyDict
  /\ movie_ids = << >> /\ movie2movie_encoded = EmptyDict
  /\ movie_encoded2movie = EmptyDict
  /\ num_users = 0 /\ num_movies = 0 /\ min_rating = 0 /\ max_rating = 0
  /\ x = << >> /\ y = << >>
  /\ x_train = << >> /\ x_val = << >> /\ y_train = << >> /\ y_val = << >>
  /\ model = NoModel
  /\ history = << >>
  /\ rec = NoRec
  /\ inputs = << >> /\ outputs = << >>
  /\ imdb = << >>
  /\ disk = NoDisk /\ loads = << >>

SpecTop == InitTop /\ [][Next]_vars

(***************************************************************************)
(* The load cell run again and again in one kernel over a dataset          *)
(* directory that persists, one step at a time: the test of movielens_dir, *)
(* the extraction member by member, the read of ratings.csv.  A run may be *)
(* stopped during extraction (an interrupt, a full disk), leaving what it  *)
(* has written.  The directory starts absent or fully extracted.           *)
(***************************************************************************)
MaxLoads == 3
\* The rows of ratings.csv play no part in the extraction: one-row files.
LoadFiles ==
  {f \in RatingsFiles : Len(f) = 1 /\ f[1].userId = 3 /\ f[1].rating = 6}

InitLoad ==
  /\ pc = "start"
  /\ ratings_csv \in LoadFiles
  /\ movies_csv \in MoviesCsvChoices
  /\ disk \in {NoDisk, FullDisk}
  /\ loads = << >>
  /\ df = << >>
  /\ user_ids = << >> /\ user2user_encoded = EmptyDict
  /\ userencoded2user = EmptyDict
  /\ movie_ids = << >> /\ movie2movie_encoded = EmptyDict
  /\ movie_encoded2movie = EmptyDict
  /\ num_users = 0 /\ num_movies = 0 /\ min_rating = 0 /\ max_rating = 0
  /\ x = << >> /\ y = << >>
  /\ x_train = << >> /\ x_val = << >> /\ y_train = << >> /\ y_val = << >>
  /\ model = NoModel
  /\ history = << >>
  /\ rec = NoRec
  /\ inputs = << >> /\ outputs = << >>
  /\ imdb = << >>

loadFrame == <<ratings_csv, movies_csv, user_ids, user2user_encoded,
               userencoded2user, movie_ids, movie2movie_encoded,
               movie_encoded2movie, num_users, num_movies, min_rating,
               max_rating, splitVars, model, history, rec, callVars, imdb>>

\* if not movielens_dir.exists(): the run goes on to extract or to read.
TestDir ==
  /\ pc = "start"
  /\ Len(loads) < MaxLoads
  /\ loads' = Append(loads, [existed |-> disk.dir,
                             extracts |-> should_extract(disk),
                             written |-> 0])
  /\ pc' = IF should_extract(disk) THEN "extracting" ELSE "reading"
  /\ UNCHANGED <<df, disk, loadFrame>>

\* zip.extractall writes the next member; after the last one the run goes on
\* to read.
ExtractMember ==
  /\ pc = "extracting"
  /\ \E k \in {loads[Len(loads)].written + 1} :
       /\ disk' = extract_member(disk, k)
       /\ loads' = [loads EXCEPT ![Len(loads)].written = k]
       /\ pc' = IF k = Len(Archive) THEN "reading" ELSE "extracting"
  /\ UNCHANGED <<df, loadFrame>>

\* The run is stopped during extraction; the cell can be run again.
StopExtraction ==
  /\ pc = "extracting"
  /\ pc' = "start"
  /\ UNCHANGED <<df, disk, loads, loadFrame>>

\* df = pd.read_csv(ratings_file); FileNotFoundError when the file is not
\* in the directory.
ReadRatings ==
  /\ pc = "reading"
  /\ IF "ratings.csv" \in disk.files
     THEN df' = read_csv(ratings_csv) /\ pc' = "loaded"
     ELSE df' = df /\ pc' = "failed"
  /\ UNCHANGED <<disk, loads, loadFrame>>

\* The cell is run again.
RunAgain ==
  /\ pc \in {"loaded", "failed"}
  /\ Len(loads) < MaxLoads
  /\ pc' = "start"
  /\ UNCHANGED <<df, disk, loads, loadFrame>>

NextLoad == TestDir \/ ExtractMember \/ StopExtraction \/ ReadRatings \/ RunAgain

SpecLoad == InitLoad /\ [][NextLoad]_vars

(***************************************************************************)
(* RecommenderNet.call on its own: a model with two users and two movies   *)
(* whose tables are drawn from a few vectors and biases, called on every   *)
(* batch of at most MaxBatch rows.                                         *)
(***************************************************************************)
CallUserIdx == {0, 1}
CallMovieIdx == {0, 1}
UserVecs == {Vec(0, 0), Vec(4, 0), Vec(4, 32)}
MovieVecs == {Vec(0, 0), Vec(3, 0), Vec(3, -16), Vec(3, 16)}
BiasVals == {0, 1}
CallModels ==
  {[built |-> TRUE, user_embedding |-> ue, user_bias |-> ub,
    movie_embedding |-> me, movie_bias |-> mb] :
     ue \in [CallUserIdx -> UserVecs], ub \in [CallUserIdx -> BiasVals],
     me \in [CallMovieIdx -> MovieVecs], mb \in [CallMovieIdx -> BiasVals]}
Batches ==
  UNION {[1..n -> CallUserIdx \X CallMovieIdx] : n \in 1..MaxBatch}

InitCall ==
  /\ pc = "call"
  /\ ratings_csv = << >> /\ movies_csv = << >> /\ df = << >>
  /\ user_ids = << >> /\ user2user_encoded = EmptyDict
  /\ userencoded2user = EmptyDict
  /\ movie_ids = << >> /\ movie2movie_encoded = EmptyDict
  /\ movie_encoded2movie = EmptyDict
  /\ num_users = Cardinality(CallUserIdx)
  /\ num_movies = Cardinality(CallMovieIdx)
  /\ min_rating = 0 /\ max_rating = 0
  /\ x = << >> /\ y = << >>
  /\ x_train = << >> /\ x_val = << >> /\ y_train = << >> /\ y_val = << >>
  /\ model \in CallModels
  /\ history = << >>
  /\ rec = NoRec
  /\ inputs = << >> /\ outputs = << >>
  /\ imdb = << >>
  /\ disk = NoDisk /\ loads = << >>

\* model(inputs): one forward evaluation of a batch.
CallBatch ==
  /\ pc = "call"
  /\ \E b \in Batches :
       /\ inputs' = b
       /\ outputs' = call(model, b)
  /\ pc' = "called"
  /\ UNCHANGED <<prepVars, splitVars, model, history, rec, imdb, diskVars>>

NextCall == CallBatch

SpecCall == InitCall /\ [][NextCall]_vars

(***************************************************************************)
(* bidirectional_lstm_imdb.ipynb.  A symbolic tensor is held as its shape, *)
(* a tuple of dimensions with NoneDim for a dimension left open.  A        *)
(* review is a sequence of word indices; the corpus holds reviews of a few *)
(* lengths around maxlen, the word at position i being i.                  *)
(***************************************************************************)
maxlen == 200
EMBED_DIM == 128
LSTM_UNITS == 64
DENSE_UNITS == 64
FIT_BATCH_SIZE == 32
NoneDim == -1
MaxReviews == 2
ReviewLens == {1, 199, 200, 201, 260}
Review(len) == [i \in 1..len |-> i]
Labels == {0, 1}
LabelledReviews == [x : {Review(l) : l \in ReviewLens}, y : Labels]
Corpora ==
  [train : UNION {[1..n -> LabelledReviews] : n \in 1..MaxReviews},
   val : [1..1 -> {[x |-> Review(l), y |-> 1] : l \in {199, 201}}]]

\* layers.Embedding(max_features, dim)(t)
Embedding(t, dim) == Append(t, dim)
\* layers.Bidirectional(layers.LSTM(units, return_sequences=rs))(t): the
\* forward and backward outputs concatenated, for every position when rs and
\* for the sequence as a whole otherwise.
BidirectionalLSTM(t, units, rs) ==
  IF rs THEN <<t[1], t[2], 2 * units>> ELSE <<t[1], 2 * units>>
\* layers.Dense(units)(t): acts on the last axis.
Dense(t, units) == [t EXCEPT ![Len(t)] = units]

\* The layers of keras.Model(inputs, outputs) applied to a tensor.
Layers ==
  <<[layer |-> "Embedding", units |-> EMBED_DIM, return_sequences |-> FALSE],
    [layer |-> "Bidirectional", units |-> LSTM_UNITS, return_sequences |-> TRUE],
    [layer |-> "Dense", units |-> DENSE_UNITS, return_sequences |-> FALSE],
    [layer |-> "Dense", units |-> 1, return_sequences |-> FALSE]>>
ApplyLayer(l, t) ==
  IF l.layer = "Embedding" THEN Embedding(t, l.units)
  ELSE IF l.layer = "Bidirectional"
       THEN BidirectionalLSTM(t, l.units, l.return_sequences)
       ELSE Dense(t, l.units)
RECURSIVE Forward(_, _, _)
Forward(ls, n, t) ==
  IF n = 0 THEN t ELSE ApplyLayer(ls[n], Forward(ls, n - 1, t))

\* Truncation without the fill: a short sequence keeps its length.
pad_sequence_no_fill(s, n) == LastN(s, n)

\* keras.preprocessing.sequence.pad_sequences(seqs, maxlen=n): the defaults
\* padding="pre", truncating="pre" keep the last n items and fill with 0 in
\* front.
pad_sequence(s, n) ==
  LET trunc == LastN(s, n)
      fill == n - Len(trunc)
  IN [i \in 1..n |-> IF i <= fill THEN 0 ELSE trunc[i - fill]]
pad_sequences(seqs, n) == [i \in 1..Len(seqs) |-> pad_sequence(seqs[i], n)]

InitImdb ==
  /\ pc = "setup"
  /\ imdb \in Corpora
  /\ disk = NoDisk /\ loads = << >>
  /\ ratings_csv = << >> /\ movies_csv = << >> /\ df = << >>
  /\ user_ids = << >> /\ user2user_encoded = EmptyDict
  /\ userencoded2user = EmptyDict
  /\ movie_ids = << >> /\ movie2movie_encoded = EmptyDict
  /\ movie_encoded2movie = EmptyDict
  /\ num_users = 0 /\ num_movies = 0 /\ min_rating = 0 /\ max_rating = 0
  /\ x = << >> /\ y = << >>
  /\ x_train = << >> /\ x_val = << >> /\ y_train = << >> /\ y_val = << >>
  /\ model = << >>
  /\ history = << >>
  /\ rec = NoRec
  /\ inputs = << >> /\ outputs = << >>

\* Cell "build the model".
BuildModel ==
  /\ pc = "setup"
  /\ inputs' = <<NoneDim, NoneDim>>
  /\ \E embedded \in {Embedding(<<NoneDim, NoneDim>>, EMBED_DIM)} :
     \E encoded \in {BidirectionalLSTM(embedded, LSTM_UNITS, TRUE)} :
     \E projected \in {Dense(encoded, DENSE_UNITS)} :
       /\ x' = encoded
       /\ y' = projected
       /\ outputs' = Dense(projected, 1)
  /\ model' = Layers
  /\ pc' = "built"
  /\ UNCHANGED <<prepVars, x_train, x_val, y_train, y_val, history, rec, imdb,
                 diskVars>>

\* Cell "load the IMDB movie review sentiment data".
LoadImdb ==
  /\ pc = "built"
  /\ x_train' = pad_sequences([i \in 1..Len(imdb.train) |-> imdb.train[i].x], maxlen)
  /\ y_train' = [i \in 1..Len(imdb.train) |-> imdb.train[i].y]
  /\ x_val' = pad_sequences([i \in 1..Len(imdb.val) |-> imdb.val[i].x], maxlen)
  /\ y_val' = [i \in 1..Len(imdb.val) |-> imdb.val[i].y]
  /\ pc' = "loaded"
  /\ UNCHANGED <<prepVars, x, y, model, history, rec, callVars, imdb,
                 diskVars>>

\* Cell "train and evaluate the model": model.fit feeds batches of
\* FIT_BATCH_SIZE sequences; history records the shapes of the first batch's
\* predictions and targets.
FitImdb ==
  /\ pc = "loaded"
  /\ \E batch \in {FirstN(x_train, FIT_BATCH_SIZE)} :
       history' = [y_pred |-> Forward(model, Len(model), <<Len(batch), Len(batch[1])>>),
                   y_true |-> <<Len(batch)>>]
  /\ pc' = "fitted"
  /\ UNCHANGED <<prepVars, splitVars, model, rec, callVars, imdb, diskVars>>

NextImdb == BuildModel \/ LoadImdb \/ FitImdb

SpecImdb == InitImdb /\ [][NextImdb]_vars

(***************************************************************************)
(* The training objective, tf.keras.losses.BinaryCrossentropy(), on one    *)
(* example.  The target is a normalized rating <<numerator, 8>>; the       *)
(* prediction is held in sixteenths (8 is 0.5); the loss is the bit        *)
(* pattern of the float32 result.  Keras clips the prediction p to         *)
(* [1e-7, 1 - 1e-7] and returns                                            *)
(*   -(t * log(p + 1e-7) + (1 - t) * log(1 - p + 1e-7)).                   *)
(* BinaryCrossentropyTable[j + 1][k + 1] is that value for t = j/8 and     *)
(* p = k/16.                                                               *)
(***************************************************************************)
BinaryCrossentropyTable ==
  <<
    <<0, 1032072373, 1040759915, 1045733216, 1049840395, 1052760012,
      1055958090, 1058229005, 1060205076, 1062445362, 1065031580,
      1066721822, 1068593685, 1071006935, 1074075022, 1076982289,
      1098208498>>,
    <<1073138839, 1053711321, 1052829693, 1053304870, 1054448308,
      1056067041, 1057532628, 1058756049, 1060205076, 1061918318,
      1063960301, 1065895064, 1067441706, 1069469370, 1072367786,
      1075562492, 1096198740>>,
    <<1081527447, 1061017154, 1058978018, 1058209870, 1058010414,
      1058169340, 1058603907, 1059283094, 1060205076, 1061391273,
      1062889022, 1064783398, 1066289729, 1067931804, 1070327352,
      1074142694, 1094188982>>,
    <<1085872497, 1066024780, 1063058886, 1061285000, 1060314372,
      1059822854, 1059675186, 1059810139, 1060205076, 1060864228,
      1061817744, 1063129884, 1064922284, 1066394238, 1068286919,
      1071703969, 1092179223>>,
    <<1089916055, 1068864375, 1066246485, 1064360131, 1062618328,
      1061476369, 1060746464, 1060337184, 1060205076, 1060337184,
      1060746464, 1061476369, 1062618328, 1064360131, 1066246485,
      1068864375, 1089819890>>,
    <<1092239326, 1071703969, 1068286919, 1066394238, 1064922284,
      1063129884, 1061817744, 1060864228, 1060205076, 1059810139,
      1059675186, 1059822854, 1060314372, 1061285000, 1063058886,
      1066024780, 1085800374>>,
    <<1094261105, 1074142694, 1070327352, 1067931804, 1066289729,
      1064783398, 1062889022, 1061391273, 1060205076, 1059283094,
      1058603907, 1058169340, 1058010414, 1058209870, 1058978018,
      1061017154, 1081431282>>,
    <<1096282884, 1075562492, 1072367786, 1069469370, 1067441706,
      1065895064, 1063960301, 1061918318, 1060205076, 1058756049,
      1057532628, 1056067041, 1054448308, 1053304870, 1052829693,
      1053711321, 1073042674>>,
    <<1098304663, 1076982289, 1074075022, 1071006935, 1068593685,
      1066721822, 1065031580, 1062445362, 1060205076, 1058229005,
      1055958090, 1052760012, 1049840395, 1045733216, 1040759915,
      1032072373, 0>>
  >>

\* The loss with the target and its complement exchanged.
binary_crossentropy_swapped(t, p) ==
  BinaryCrossentropyTable[8 - ((8 * t[1]) \div t[2]) + 1][p + 1]

binary_crossentropy(t, p) ==
  BinaryCrossentropyTable[((8 * t[1]) \div t[2]) + 1][p + 1]

LossTargets == {<<j, 8>> : j \in 0..8}
LossScores == 0..16

InitLoss ==
  /\ pc = "example"
  /\ y \in {<<t>> : t \in LossTargets}
  /\ outputs \in {<<p>> : p \in LossScores}
  /\ ratings_csv = << >> /\ movies_csv = << >> /\ df = << >>
  /\ user_ids = << >> /\ user2user_encoded = EmptyDict
  /\ userencoded2user = EmptyDict
  /\ movie_ids = << >> /\ movie2movie_encoded = EmptyDict
  /\ movie_encoded2movie = EmptyDict
  /\ num_users = 0 /\ num_movies = 0 /\ min_rating = 0 /\ max_rating = 0
  /\ x = << >>
  /\ x_train = << >> /\ x_val = << >> /\ y_train = << >> /\ y_val = << >>
  /\ model = NoModel
  /\ history = << >>
  /\ rec = NoRec
  /\ inputs = << >>
  /\ imdb = << >>
  /\ disk = NoDisk /\ loads = << >>

\* One step of model.fit on a batch of one example: the loss of the
\* prediction against the target.
ComputeLoss ==
  /\ pc = "example"
  /\ history' = <<binary_crossentropy(y[1], outputs[1])>>
  /\ pc' = "loss"
  /\ UNCHANGED <<prepVars, splitVars, model, rec, callVars, imdb, diskVars>>

NextLoss == ComputeLoss

SpecLoss == InitLoss /\ [][NextLoss]_vars

(***************************************************************************)
(* A run of either notebook, each in its own kernel: the recommender       *)
(* notebook starts from its files, the classifier notebook has none.       *)
(***************************************************************************)
Notebook == IF ratings_csv = << >> THEN "imdb" ELSE "movielens"

InitBoth == Init \/ InitImdb

NextBoth ==
  \/ Notebook = "movielens" /\ Next
  \/ Notebook = "imdb" /\ NextImdb

SpecBoth == InitBoth /\ [][NextBoth]_vars

(***************************************************************************)
(* The claims.                                                             *)
(***************************************************************************)
\* The score the contract gives the pair (u, m): the sigmoid of the dot
\* product of the pair's own vectors plus the pair's own biases.
RowScore(m, u, mv) ==
  Sigmoid(Dot(m.user_embedding[u], m.movie_embedding[mv])
          + 2 * m.user_bias[u] + 2 * m.movie_bias[mv])
ZeroVec == Vec(0, 0)

\* C1: every row (u, m) of a batch passed to call gets the score
\* sigmoid(dot(user_vec[u], movie_vec[m]) + user_bias[u] + movie_bias[m]),
\* whatever the other rows of the batch are.
C1_ScoreOfOwnRow ==
  pc = "called" =>
    \A i \in 1..Len(inputs) : outputs[i] = RowScore(model, inputs[i][1], inputs[i][2])

\* C2 as stated: every score lies strictly between 0 and 1.
C2_ScoreStrictlyInside ==
  pc = "called" => \A i \in 1..Len(outputs) : Zero < outputs[i] /\ outputs[i] < One

\* C2 as amended: every score lies in the closed interval [0, 1]; both ends
\* are float32 values the sigmoid takes when the logit is large.
C2_ScoreInClosedInterval ==
  pc = "called" => \A i \in 1..Len(outputs) : Zero <= outputs[i] /\ outputs[i] <= One
C2_Witness ==
  /\ pc = "called"
  /\ Len(inputs) = 1
  /\ outputs[1] = One

\* The predicted score of a candidate movie, by its raw id.
ScoreOf(movie) ==
  LET k == CHOOSE i \in 1..Len(rec.movies_not_watched) :
             rec.movies_not_watched[i][1] = movie2movie_encoded[movie]
  IN rec.ratings[k]

\* C3: the titles under "Top 10 movie recommendations" are printed in order
\* of decreasing predicted score, the highest first.
C3_PrintedInRankOrder ==
  pc = "recommended" =>
    \A i, j \in 1..Len(rec.printed_recommended) :
       i < j => ScoreOf(rec.printed_recommended[i]) >= ScoreOf(rec.printed_recommended[j])

\* C4: the classifier gives one scalar per input sequence, as many values as
\* the batch has labels, not one per token position.
C4_OneScalarPerSequence ==
  /\ pc \in {"built", "loaded", "fitted"} => outputs = <<NoneDim, 1>>
  /\ pc = "fitted" => history.y_pred = <<history.y_true[1], 1>>

\* C5: a pair whose two vectors are zero and whose two biases are zero gets
\* the score 0.5 exactly.
C5_ZeroPairScoresHalf ==
  pc = "called" =>
    \A i \in 1..Len(inputs) :
       (/\ model.user_embedding[inputs[i][1]] = ZeroVec
        /\ model.movie_embedding[inputs[i][2]] = ZeroVec
        /\ model.user_bias[inputs[i][1]] = 0
        /\ model.movie_bias[inputs[i][2]] = 0) => outputs[i] = Half

\* C6: the index maps are dense bijections (raw ids one-to-one onto
\* 0..num-1) and the reverse tables are their inverses, both ways round.
DenseBijection(to, from, raw, n) ==
  /\ DOMAIN to = raw
  /\ {to[r] : r \in raw} = 0..(n - 1)
  /\ \A a, b \in raw : to[a] = to[b] => a = b
  /\ DOMAIN from = 0..(n - 1)
  /\ \A r \in raw : from[to[r]] = r
  /\ \A k \in 0..(n - 1) : to[from[k]] = k
C6_IndexMapsAreDenseBijections ==
  pc \notin {"start", "loaded"} =>
    /\ DenseBijection(user2user_encoded, userencoded2user,
                      {df[i].userId : i \in 1..Len(df)}, num_users)
    /\ DenseBijection(movie2movie_encoded, movie_encoded2movie,
                      {df[i].movieId : i \in 1..Len(df)}, num_movies)
C6_Witness ==
  /\ pc = "encoded"
  /\ num_users = 2 /\ num_movies = 2
  /\ Len(df) = 3
  /\ user_ids[1] > user_ids[2]
  /\ df[1].userId = df[2].userId

\* A quotient <<numerator, denominator>> is a number in [0, 1].
InUnitInterval(q) == q[2] > 0 /\ 0 <= q[1] /\ q[1] <= q[2]

C9_TablesChangeOnlyInFit ==
  [][/\ model' # model =>
          \/ (pc = "split" /\ pc' = "compiled")
          \/ (pc = "compiled" /\ pc' = "fitted")
     /\ pc' = "recommended" =>
          predict(model', rec'.user_movie_array) = rec'.ratings]_vars
C9_Witness ==
  /\ pc = "recommended"
  /\ rec.runs = 2
  /\ model.built
  /\ \E i \in 1..Len(rec.ratings) : rec.ratings[i] # Half

\* C10: one permutation of the user indices and one of the movie indices,
\* each applied to the index map and to the two tables of its side, leave
\* the score of every raw (user id, movie id) pair as it was.
Inverse(p) == [k \in DOMAIN p |-> CHOOSE a \in DOMAIN p : p[a] = k]
PermutedModel(m, inv_pu, inv_pm) ==
  [built |-> m.built,
   user_embedding |-> [k \in DOMAIN inv_pu |-> m.user_embedding[inv_pu[k]]],
   user_bias |-> [k \in DOMAIN inv_pu |-> m.user_bias[inv_pu[k]]],
   movie_embedding |-> [k \in DOMAIN inv_pm |-> m.movie_embedding[inv_pm[k]]],
   movie_bias |-> [k \in DOMAIN inv_pm |-> m.movie_bias[inv_pm[k]]]]
RawCandidates ==
  [i \in 1..Len(rec.movies_not_watched) |->
     movie_encoded2movie[rec.movies_not_watched[i][1]]]
C10_ScoreIgnoresStorageOrder ==
  pc = "recommended" =>
    \E raw \in {RawCandidates} :
    \A pu \in Permutations(0..(num_users - 1)) :
    \A pm \in Permutations(0..(num_movies - 1)) :
    \E inv_pu \in {Inverse(pu)} :
    \E inv_pm \in {Inverse(pm)} :
    \E permuted \in {PermutedModel(model, inv_pu, inv_pm)} :
    \E rows \in {[i \in 1..Len(raw) |->
                    <<pu[user2user_encoded[rec.user_id]],
                      pm[movie2movie_encoded[raw[i]]]>>]} :
      /\ predict(permuted, rows) = rec.ratings
      /\ \A u \in DOMAIN user2user_encoded, mv \in DOMAIN movie2movie_encoded :
           \E row \in {<<user2user_encoded[u], movie2movie_encoded[mv]>>} :
             call(permuted, <<<<pu[row[1]], pm[row[2]]>>>>) = call(model, <<row>>)
C10_Witness ==
  /\ pc = "recommended"
  /\ num_users = 2 /\ num_movies = 3
  /\ Len(rec.ratings) = 2
  /\ rec.ratings[1] # rec.ratings[2]
  /\ model.movie_bias[0] # model.movie_bias[2]
  /\ model.user_embedding[0] # model.user_embedding[1]

\* C11 as claimed: the loss of one example is 0 when the prediction equals
\* the target, and a prediction with a smaller absolute error never has a
\* larger loss.
C11_LossZeroAtTargetAndFallsWithError ==
  pc = "loss" =>
    LET t == y[1]
        p == outputs[1]
        AbsErr(q) == IF q >= 2 * t[1] THEN q - 2 * t[1] ELSE 2 * t[1] - q
    IN /\ p = 2 * t[1] => history[1] = Zero
       /\ \A q \in LossScores :
            AbsErr(q) <= AbsErr(p) => binary_crossentropy(t, q) <= history[1]

\* C11 amended: the loss is 0 at the target when the target is 0 or 1, and
\* for a fixed target a prediction lying between the target and the given
\* prediction (same side, smaller or equal absolute error) never has a
\* larger loss.
C11_LossFallsTowardTarget ==
  pc = "loss" =>
    LET t == y[1]
        p == outputs[1]
    IN /\ (p = 2 * t[1] /\ t[1] \in {0, 8}) => history[1] = Zero
       /\ \A q \in LossScores :
            ((p <= q /\ q <= 2 * t[1]) \/ (2 * t[1] <= q /\ q <= p)) =>
              binary_crossentropy(t, q) <= history[1]
C11_Witness ==
  /\ pc = "loss"
  /\ y[1][1] \notin {0, 8}
  /\ outputs[1] # 2 * y[1][1]
  /\ history[1] > binary_crossentropy(y[1], 2 * y[1][1])
  /\ binary_crossentropy(y[1], 2 * y[1][1]) > Zero

\* C12: the model is a 2-layer bidirectional LSTM: between the embedding and
\* the dense classifier the layer stack holds two bidirectional LSTM layers.
C12_TwoBidirectionalLayers ==
  pc \in {"built", "loaded", "fitted"} =>
    LET bidi == {i \in DOMAIN model : model[i].layer = "Bidirectional"}
        embed == {i \in DOMAIN model : model[i].layer = "Embedding"}
        dense == {i \in DOMAIN model : model[i].layer = "Dense"}
    IN /\ Cardinality(bidi) = 2
       /\ \A b \in bidi : (\A e \in embed : e < b) /\ (\A d \in dense : b < d)

\* The tokens of a padded sequence (0 is the filler).
Tokens(s) == {s[i] : i \in DOMAIN s} \ {0}
\* Padded sequence p comes from review r: its tokens are tokens of r, as many
\* as fit.
PaddedFrom(p, r) ==
  /\ Tokens(p) \subseteq Range(r)
  /\ Cardinality(Tokens(p)) = IF Len(r) <= maxlen THEN Len(r) ELSE maxlen

\* C13: after preprocessing every sequence of x_train and x_val has length
\* maxlen, and the sequences are as many as the reviews, each still at the
\* place of its own review and its own label.
C13_PaddedToMaxlenAndPaired ==
  pc \in {"loaded", "fitted"} =>
    /\ Len(x_train) = Len(imdb.train) /\ Len(y_train) = Len(imdb.train)
    /\ Len(x_val) = Len(imdb.val) /\ Len(y_val) = Len(imdb.val)
    /\ \A i \in 1..Len(imdb.train) :
         /\ Len(x_train[i]) = maxlen
         /\ PaddedFrom(x_train[i], imdb.train[i].x)
         /\ y_train[i] = imdb.train[i].y
    /\ \A i \in 1..Len(imdb.val) :
         /\ Len(x_val[i]) = maxlen
         /\ PaddedFrom(x_val[i], imdb.val[i].x)
         /\ y_val[i] = imdb.val[i].y
C13_Witness ==
  /\ pc = "loaded"
  /\ \E i, j \in 1..Len(imdb.train) :
       /\ Len(imdb.train[i].x) < maxlen
       /\ Len(imdb.train[j].x) > maxlen
       /\ imdb.train[i].y # imdb.train[j].y
       /\ Len(x_train[i]) = maxlen /\ Len(x_train[j]) = maxlen

\* C14: of a review longer than maxlen the first maxlen tokens are kept, in
\* their order.
C14_TruncationKeepsFirstTokens ==
  pc \in {"loaded", "fitted"} =>
    /\ \A i \in 1..Len(imdb.train) :
         Len(imdb.train[i].x) > maxlen =>
           x_train[i] = SubSeq(imdb.train[i].x, 1, maxlen)
    /\ \A i \in 1..Len(imdb.val) :
         Len(imdb.val[i].x) > maxlen =>
           x_val[i] = SubSeq(imdb.val[i].x, 1, maxlen)

\* C15: recommended_movie_ids holds min(10, number of candidates) distinct
\* raw movie ids, all of them candidates; no candidate left out has a
\* strictly higher predicted score than one taken; the ids are listed in
\* order of non-increasing score.
C15_TopTenByScore ==
  pc = "recommended" =>
    LET ids == rec.recommended_movie_ids
        n == Len(rec.movies_not_watched)
        cands == {movie_encoded2movie[rec.movies_not_watched[i][1]] : i \in 1..n}
    IN /\ Len(ids) = IF n < TOP_N THEN n ELSE TOP_N
       /\ \A i, j \in 1..Len(ids) : ids[i] = ids[j] => i = j
       /\ Range(ids) \subseteq cands
       /\ \A s \in Range(ids) : \A c \in cands \ Range(ids) :
            ScoreOf(c) <= ScoreOf(s)
       /\ \A i, j \in 1..Len(ids) : i < j => ScoreOf(ids[i]) >= ScoreOf(ids[j])
C15_Witness ==
  /\ pc = "recommended"
  /\ Len(rec.movies_not_watched) > TOP_N
  /\ Len(rec.recommended_movie_ids) = TOP_N
  /\ \E i, j \in 1..Len(rec.ratings) : rec.ratings[i] # rec.ratings[j]

\* C16: the rows scored for the chosen user are exactly the movies that
\* appear in movies.csv, have an index in movie2movie_encoded and were not
\* rated by that user; no rated movie is scored or recommended and every
\* movie index that reaches the model is an index of the table.
C16_CandidatesAreUnratedIndexedMovies ==
  pc = "recommended" =>
    LET rated == {df[i].movieId : i \in {k \in 1..Len(df) : df[k].userId = rec.user_id}}
        expected == {m \in Range(movies_csv) :
                       m \in DOMAIN movie2movie_encoded /\ m \notin rated}
        rows == rec.user_movie_array
    IN /\ \A i \in 1..Len(rows) :
            /\ rows[i][1] = user2user_encoded[rec.user_id]
            /\ rows[i][2] \in DOMAIN movie_encoded2movie
       /\ {movie_encoded2movie[rows[i][2]] : i \in 1..Len(rows)} = expected
       /\ Len(rows) = Cardinality(expected)
       /\ Range(rec.recommended_movie_ids) \cap rated = {}
       /\ Range(rec.recommended_movie_ids) \subseteq expected
C16_Witness ==
  /\ pc = "recommended"
  /\ Len(rec.user_movie_array) > 1
  /\ \E m \in Range(movies_csv) : m \notin DOMAIN movie2movie_encoded
  /\ \E m \in DOMAIN movie2movie_encoded : m \notin Range(movies_csv)
  /\ \E i \in 1..Len(df) :
       df[i].userId = rec.user_id /\ df[i].movieId \in Range(movies_csv)

\* A row <<user index, movie index>> meets the precondition of the score
\* function: both are indices of the tables, not missing values.
ValidRow(row) ==
  /\ row[1] \in 0..(num_users - 1)
  /\ row[2] \in 0..(num_movies - 1)

\* C17: every row of x_train, x_val and user_movie_array holds a user index
\* in [0, num_users) and a movie index in [0, num_movies).
C17_RowsMeetIndexPrecondition ==
  /\ pc \in {"split", "compiled", "fitted", "recommended"} =>
       /\ \A i \in 1..Len(x_train) : ValidRow(x_train[i])
       /\ \A i \in 1..Len(x_val) : ValidRow(x_val[i])
  /\ pc = "recommended" =>
       \A i \in 1..Len(rec.user_movie_array) : ValidRow(rec.user_movie_array[i])
C17_Witness ==
  /\ pc = "recommended"
  /\ num_users > 1 /\ num_movies > 1
  /\ Len(x_train) > 0 /\ Len(x_val) > 0
  /\ Len(rec.user_movie_array) > 0
  /\ \E i \in 1..Len(x_train) : x_train[i][1] = num_users - 1

\* The record of ratings.csv row r as the model sees it: its index pair and
\* its normalized rating.
RecordOf(r) ==
  [x |-> <<user2user_encoded[r.userId], movie2movie_encoded[r.movieId]>>,
   y |-> normalize(r.rating, min_rating, max_rating)]

\* C18: with N records the first floor(0.9 * N) shuffled rows are the
\* training set and the rest the validation set; every record is in exactly
\* one place of the two, with its own normalized rating beside it.
C18_SplitPartitionsRecords ==
  pc \in {"split", "compiled", "fitted", "recommended"} =>
    LET N == Len(ratings_csv)
        rows == [i \in 1..(Len(x_train) + Len(x_val)) |->
                   IF i <= Len(x_train)
                   THEN [x |-> x_train[i], y |-> y_train[i]]
                   ELSE [x |-> x_val[i - Len(x_train)],
                         y |-> y_val[i - Len(x_train)]]]
    IN /\ Len(x_train) = (9 * N) \div 10
       /\ Len(y_train) = Len(x_train)
       /\ Len(x_val) = N - Len(x_train)
       /\ Len(y_val) = Len(x_val)
       /\ x_train \o x_val = x
       /\ y_train \o y_val = y
       /\ \A i \in 1..N :
            Cardinality({k \in 1..Len(rows) : rows[k] = RecordOf(ratings_csv[i])}) = 1
C18_Witness ==
  /\ pc = "split"
  /\ Len(x_train) > 1 /\ Len(x_val) > 1
  /\ \E i \in 1..Len(y) : y[i] # y[1]
  /\ \E i \in 1..Len(ratings_csv) : RecordOf(ratings_csv[i]).x # x[i]

\* The stages of a pipeline that have finished, read off the data each one
\* leaves behind: A data ingestion (the records are loaded), B index mapping
\* (the indices exist, the sequences are padded), C model (the model is
\* built), D training (fit has returned its history), E inference and
\* reporting (the recommendations are shown; the classifier is evaluated on
\* the validation data inside fit).
StageDone(s) ==
  IF Notebook = "movielens"
  THEN CASE s = "A" -> Len(df) > 0
         [] s = "B" -> num_users > 0
         [] s = "C" -> model.built
         [] s = "D" -> DOMAIN history # {}
         [] s = "E" -> rec.runs > 0
  ELSE CASE s = "A" -> Len(x_train) > 0
         [] s = "B" -> Len(x_train) > 0 /\ \A i \in 1..Len(x_train) : Len(x_train[i]) = maxlen
         [] s = "C" -> Len(model) > 0
         [] s = "D" -> DOMAIN history # {}
         [] s = "E" -> DOMAIN history # {}
\* No stage of the order has finished while an earlier one has not.
InOrder(order) ==
  \A i, j \in 1..Len(order) : (i < j /\ StageDone(order[j])) => StageDone(order[i])

\* C19 as claimed: each of the two pipelines runs its stages in the order
\* A, B, C, D, E.
C19_StagesInOrderABCDE == InOrder(<<"A", "B", "C", "D", "E">>)

\* C19 amended: the recommender runs A, B, C, D, E; the classifier builds
\* its model first and runs C, A, B, D, E.
C19_StagesInNotebookOrder ==
  IF Notebook = "movielens"
  THEN InOrder(<<"A", "B", "C", "D", "E">>)
  ELSE InOrder(<<"C", "A", "B", "D", "E">>)
C19_Witness ==
  /\ Notebook = "imdb"
  /\ pc = "loaded"
  /\ StageDone("C") /\ StageDone("A") /\ StageDone("B")
  /\ ~StageDone("D")

\* C20: a run of the load cell extracts exactly when movielens_dir does not
\* exist at the moment the run tests it, and once a run has completed the
\* extraction no later run extracts.
C20_ExtractsOnlyWithoutDirectory ==
  /\ \A i \in 1..Len(loads) :
       /\ loads[i].extracts <=> ~loads[i].existed
       /\ loads[i].written > 0 => loads[i].extracts
  /\ \A i, j \in 1..Len(loads) :
       (i < j /\ loads[i].written = Len(Archive)) =>
         (~loads[j].extracts /\ loads[j].written = 0)
C20_Witness ==
  /\ Len(loads) = MaxLoads
  /\ loads[1].extracts /\ loads[1].written = Len(Archive)
  /\ \A j \in 2..Len(loads) : ~loads[j].extracts
  /\ pc = "loaded"

\* C21: whenever a run of the load cell skips the extraction, the directory
\* it goes on to read holds ratings.csv and movies.csv, also after an
\* earlier run was stopped in the middle of its extraction.
C21_SkippedExtractionReadsCompleteDirectory ==
  (/\ pc \in {"reading", "loaded", "failed"}
   /\ Len(loads) > 0
   /\ ~loads[Len(loads)].extracts) =>
    /\ {"ratings.csv", "movies.csv"} \subseteq disk.files
    /\ pc # "failed"

====
